---- MODULE Spec2Model ----
(***************************************************************************)
(* Model of the streaming chat client in src/components/chat-interface.tsx *)
(* The file holds two variants of the ChatInterface component (lines 17-251 *)
(* and 269-415).  Each keeps React state (messages, input, isLoading) and  *)
(* one async handler, handleSendMessage, which posts the prompt, reads the *)
(* response body chunk by chunk, splits it into lines, parses each line as *)
(* JSON and merges the "response" field into the assistant placeholder.    *)
(*                                                                         *)
(* Text is modelled as sequences of tokens.  On the wire (bytes):          *)
(*   "{"   the opening of a frame up to the start of the delta string      *)
(*         ({"response":")                                                  *)
(*   "}"   the closing of a frame ("})                                     *)
(*   "D"   the terminal flag, written just before the closing              *)
(*         (","done":true)                                                  *)
(*   "a" "b"   one-byte characters of a delta                              *)
(*   "C3" "A9" the two bytes of the UTF-8 encoding of one character        *)
(*   "x"   a byte that can appear in no JSON frame                         *)
(*   "SP"  a space, "NL" the line terminator \n                            *)
(* After decoding, "C3" "A9" is the single character "e_acute" and an      *)
(* ill-formed byte is "FFFD" (the replacement character).                  *)
(***************************************************************************)
EXTENDS Integers, Sequences, FiniteSets, TLC

\* ---------------------------------------------------------------- bounds
\* Lines per response body.
MaxLines == 2
\* Accepted sends (requests issued) per behaviour.
MaxSends == 2
\* Largest reading of the millisecond clock.
MaxClock == 1

\* ------------------------------------------------------------- sequences
Last(s) == s[Len(s)]

Front(s) == SubSeq(s, 1, Len(s) - 1)

\* --------------------------------------------------------------- strings
Whitespace == {"SP", "NL"}

\* String.prototype.trim: whitespace removed from both ends.
RECURSIVE TrimLeft(_)
TrimLeft(s) ==
  IF s # <<>> /\ Head(s) \in Whitespace THEN TrimLeft(Tail(s)) ELSE s

RECURSIVE TrimRight(_)
TrimRight(s) ==
  IF s # <<>> /\ Last(s) \in Whitespace THEN TrimRight(Front(s)) ELSE s

Trim(s) == TrimRight(TrimLeft(s))

\* String.prototype.split("\n"): the pieces between separators; always at
\* least one piece, the last one being the text after the last separator.
RECURSIVE SplitAcc(_, _, _)
SplitAcc(s, sep, cur) ==
  IF s = <<>> THEN <<cur>>
  ELSE IF Head(s) = sep THEN <<cur>> \o SplitAcc(Tail(s), sep, <<>>)
  ELSE SplitAcc(Tail(s), sep, Append(cur, Head(s)))

Split(s, sep) == SplitAcc(s, sep, <<>>)

\* ---------------------------------------------------------- TextDecoder
\* decoder.decode(value, { stream: true }) of one decoder instance: the
\* bytes held back from the previous call are put in front of the chunk, a
\* complete two-byte sequence becomes one character, an ill-formed byte
\* becomes U+FFFD, and a lead byte at the very end is held back.
RECURSIVE DecodeBytes(_)
DecodeBytes(bs) ==
  IF bs = <<>> THEN <<>>
  ELSE IF Head(bs) = "C3" THEN
    IF Len(bs) = 1 THEN <<>>
    ELSE IF bs[2] = "A9" THEN <<"e_acute">> \o DecodeBytes(Tail(Tail(bs)))
    ELSE <<"FFFD">> \o DecodeBytes(Tail(bs))
  ELSE IF Head(bs) = "A9" THEN <<"FFFD">> \o DecodeBytes(Tail(bs))
  ELSE <<Head(bs)>> \o DecodeBytes(Tail(bs))

HeldBack(bs) == IF bs # <<>> /\ Last(bs) = "C3" THEN <<"C3">> ELSE <<>>

DecodeStreamText(held, chunk) == DecodeBytes(held \o chunk)

DecodeStreamHeld(held, chunk) == HeldBack(held \o chunk)

\* ------------------------------------------------------------ JSON.parse
DeltaChars == {"a", "b", "e_acute", "FFFD"}

AllDelta(s) == \A i \in DOMAIN s : s[i] \in DeltaChars

\* JSON.parse(line) over the token grammar: surrounding whitespace is
\* allowed; the value is  "{" ["M"] delta* ["D"] "}"; anything else throws.
\* Without "M" the delta is the value of the key "response"; with "M" the
\* object has no key "response" and the delta is the value of
\* message.content (the frames of src/README.md).  "D" is done: true.
JSONParse(line) ==
  LET t == Trim(line)
      wellFormed == /\ Len(t) >= 2
                    /\ Head(t) = "{"
                    /\ Last(t) = "}"
      inner == SubSeq(t, 2, Len(t) - 1)
      isDone == inner # <<>> /\ Last(inner) = "D"
      fields == IF isDone THEN Front(inner) ELSE inner
      hasMessage == fields # <<>> /\ Head(fields) = "M"
      delta == IF hasMessage THEN Tail(fields) ELSE fields
  IN IF wellFormed /\ AllDelta(delta)
     THEN [ok |-> TRUE, response |-> IF hasMessage THEN <<>> ELSE delta,
           done |-> isDone, hasMessage |-> hasMessage,
           content |-> IF hasMessage THEN delta ELSE <<>>]
     ELSE [ok |-> FALSE, response |-> <<>>, done |-> FALSE,
           hasMessage |-> FALSE, content |-> <<>>]

\* --------------------------------------------------------------- inputs
\* Values the input field is given (onChange, suggestion buttons).
InputSet == {<<"SP">>, <<"SP", "h">>}

\* Lines a server may put in a response body (without the terminator).
FrameAcute == <<"{", "C3", "A9", "}">>
FrameEmpty == <<"{", "}">>
FrameDone == <<"{", "b", "D", "}">>
FrameMessage == <<"{", "M", "a", "}">>
Garbage == <<"x", "{", "a", "}">>
Blank == <<"SP">>

LineSet == {FrameAcute, FrameEmpty, FrameDone, FrameMessage, Garbage, Blank}

LineSeqs == UNION {[1..n -> LineSet] : n \in 0..MaxLines}

RECURSIVE JoinLines(_)
JoinLines(ls) ==
  IF ls = <<>> THEN <<>> ELSE Head(ls) \o <<"NL">> \o JoinLines(Tail(ls))

\* Response bodies: every line terminated, or the last terminator missing.
BodySet ==
  LET full == {JoinLines(ls) : ls \in LineSeqs}
  IN full \cup {Front(b) : b \in full \ {<<>>}}

\* Body of the exchanges of a whole conversation: one terminal frame that
\* carries the reply.
Replies == {JoinLines(<<FrameDone>>)}

\* ---------------------------------------------------------------- state
VARIABLES
  variant,             \* which of the two components is mounted (1 or 2)
  messages,            \* useState<Message[]>
  input,               \* useState("")
  isLoading,           \* useState(false)
  now,                 \* last reading of Date.now()
  pc,                  \* where handleSendMessage is suspended
  assistantMessageId,  \* const assistantMessageId
  fullResponse,        \* let fullResponse
  buffer,              \* let buffer (variant 1)
  held,                \* bytes the TextDecoder holds back between calls
  wire,                \* bytes of the response body not yet read
  body,                \* the whole response body of the exchange
  frames,              \* the frames JSON.parse returned, in order
  base,                \* messages.length when the send was accepted
  requests,            \* fetch calls issued
  inflight,            \* handler invocations that have not reached finally
  outcome,             \* how the last exchange resolved
  lastError,           \* what the catch block caught, if it ran
  lastCall,            \* what the guard did, when the last step was a call
  cancelRequested,     \* cancellation was triggered during the exchange
  splitFrame,          \* a chunk boundary fell inside a well-formed frame
  streamEnded          \* reader.read() has resolved with done: true

vars == <<variant, messages, input, isLoading, now, pc, assistantMessageId,
          fullResponse, buffer, held, wire, body, frames, base, requests,
          inflight, outcome, lastError, lastCall, cancelRequested,
          splitFrame, streamEnded>>

stream == <<fullResponse, buffer, held, wire, body, frames, splitFrame>>

Init ==
  /\ variant \in {1, 2}
  /\ messages = <<>>
  /\ input = <<>>
  /\ isLoading = FALSE
  /\ now = 0
  /\ pc = "idle"
  /\ assistantMessageId = 0
  /\ fullResponse = <<>>
  /\ buffer = <<>>
  /\ held = <<>>
  /\ wire = <<>>
  /\ body = <<>>
  /\ frames = <<>>
  /\ base = 0
  /\ requests = 0
  /\ inflight = 0
  /\ outcome = "Idle"
  /\ lastError = "none"
  /\ lastCall = "none"
  /\ cancelRequested = FALSE
  /\ splitFrame = FALSE
  /\ streamEnded = FALSE

\* -------------------------------------------------------------- helpers
Message(id, role, content) == [id |-> id, role |-> role, content |-> content]

\* prev.map(msg => msg.id === id ? { ...msg, content } : msg)
UpdateContent(msgs, id, content) ==
  [i \in DOMAIN msgs |->
     IF msgs[i].id = id THEN [msgs[i] EXCEPT !.content = content] ELSE msgs[i]]

\* The guard without its isLoading test.
RejectsIgnoringLoading(inp, loading) == Trim(inp) = <<>>

\* The guard testing the raw input, not the trimmed one.
RejectsUntrimmed(inp, loading) == inp = <<>> \/ loading

\* The guard of handleSendMessage: if (!input.trim() || isLoading) return
Rejects(inp, loading) == Trim(inp) = <<>> \/ loading

\* The for-loop over the lines of one chunk: blank lines are skipped, a line
\* JSON.parse throws on is skipped, a truthy data.response is appended.
RECURSIVE MergeLines(_, _)
MergeLines(lines, full) ==
  IF lines = <<>> THEN full
  ELSE LET line == Head(lines)
           data == JSONParse(line)
       IN IF Trim(line) = <<>> THEN MergeLines(Tail(lines), full)
          ELSE IF data.ok /\ data.response # <<>>
               THEN MergeLines(Tail(lines), full \o data.response)
               ELSE MergeLines(Tail(lines), full)

\* Whether the loop called setMessages at all.
RECURSIVE Merged(_)
Merged(lines) ==
  /\ lines # <<>>
  /\ \/ LET data == JSONParse(Head(lines))
        IN Trim(Head(lines)) # <<>> /\ data.ok /\ data.response # <<>>
     \/ Merged(Tail(lines))

\* The frames the loop obtained from JSON.parse.
RECURSIVE ParsedFrames(_)
ParsedFrames(lines) ==
  IF lines = <<>> THEN <<>>
  ELSE LET line == Head(lines)
           data == JSONParse(line)
       IN IF Trim(line) # <<>> /\ data.ok
          THEN <<[response |-> data.response, done |-> data.done,
                   hasMessage |-> data.hasMessage,
                   content |-> data.content]>>
                 \o ParsedFrames(Tail(lines))
          ELSE ParsedFrames(Tail(lines))

NonBlank(line) == Trim(line) # <<>>

\* A variant 1 that pops the last complete line along with the remainder.
LinesOf1PopTwice(buf, text) == Front(Front(Split(buf \o text, "NL")))

\* Variant 1: buffer += chunk; lines = buffer.split("\n"); buffer = lines.pop()
LinesOf1(buf, text) == Front(Split(buf \o text, "NL"))

BufferOf1(buf, text) == Last(Split(buf \o text, "NL"))

\* Variant 2: lines = chunk.split("\n").filter(line => line.trim())
LinesOf2(text) == SelectSeq(Split(text, "NL"), NonBlank)

LinesOf(v, buf, text) == IF v = 1 THEN LinesOf1(buf, text) ELSE LinesOf2(text)

BufferOf(v, buf, text) == IF v = 1 THEN BufferOf1(buf, text) ELSE <<>>

\* error.message of what the catch block caught.
ErrorMessage(kind) ==
  CASE kind = "fetch" -> "Failed to fetch"
    [] kind = "status" -> "API error"
    [] kind = "read" -> "network error"

\* content of the message the catch block builds.
ErrorContent(v, kind) ==
  IF v = 1 THEN <<"X", "Error:", ErrorMessage(kind)>>
  ELSE <<"Error:", ErrorMessage(kind)>>

\* A catch block of variant 1 that drops the last two elements.
CatchMessagesDropTwo(v, msgs, t, kind) ==
  IF v = 1
  THEN Append(Front(Front(msgs)),
              Message(t, "assistant", ErrorContent(v, kind)))
  ELSE Append(msgs, Message(t + 2, "assistant", ErrorContent(v, kind)))

\* The catch block's setMessages, with the clock reading t.
CatchMessages(v, msgs, t, kind) ==
  IF v = 1
  THEN Append(Front(msgs), Message(t, "assistant", ErrorContent(v, kind)))
  ELSE Append(msgs, Message(t + 2, "assistant", ErrorContent(v, kind)))

\* The line of the body around the boundary between bytes p and p + 1.
LineAround(b, p) ==
  LET starts == {i \in 1..p : i = 1 \/ b[i - 1] = "NL"}
      ends == {j \in p..Len(b) : j = Len(b) \/ b[j + 1] = "NL"}
      first == CHOOSE i \in starts : \A k \in starts : k <= i
      last == CHOOSE j \in ends : \A k \in ends : j <= k
  IN SubSeq(b, first, last)

\* A chunk ending after byte p of the body cuts a well-formed frame in two.
SplitsFrame(b, p) ==
  /\ 1 <= p /\ p < Len(b)
  /\ b[p] # "NL" /\ b[p + 1] # "NL"
  /\ JSONParse(DecodeBytes(LineAround(b, p))).ok

\* --------------------------------------------------------------- actions
\* onChange={(e) => setInput(e.target.value)}, and the suggestion buttons.
\* The guard of handleSendMessage is modelled for every value of the state,
\* so the field also changes while a request is running.
SetInput(v) ==
  /\ input' = v
  /\ lastCall' = "none"
  /\ UNCHANGED <<variant, messages, isLoading, now, pc, assistantMessageId,
                 stream, streamEnded, base, requests, inflight, outcome, lastError, cancelRequested>>

\* handleSendMessage called and returning at its guard.
SendRejected ==
  /\ Rejects(input, isLoading)
  /\ lastCall' = IF Trim(input) = <<>> THEN "blank" ELSE "busy"
  /\ UNCHANGED <<variant, messages, input, isLoading, now, pc,
                 assistantMessageId, stream, streamEnded, base, requests, inflight,
                 outcome, lastError, cancelRequested>>

\* A handler that stores the trimmed input in the user message.
AppendedTrimmed(msgs, inp, t1, t2) ==
  msgs \o <<Message(t1, "user", Trim(inp)),
            Message(t2 + 1, "assistant", <<>>)>>

\* setMessages(prev => [...prev, userMessage]) and
\* setMessages(prev => [...prev, assistantMessage]) of one accepted call.
AppendedOnSend(msgs, inp, t1, t2) ==
  msgs \o <<Message(t1, "user", inp), Message(t2 + 1, "assistant", <<>>)>>

\* An accepted call that does not set the flag.
LoadingNotSet == FALSE

\* setIsLoading(true) of an accepted call.
LoadingAfterAccept == TRUE

\* handleSendMessage up to its first suspension, await fetch(...): the user
\* message and the placeholder are appended, the input is cleared, the
\* loading flag is set and the request is issued.  t1 and t2 are the two
\* readings of Date.now().
SendAccepted ==
  /\ ~Rejects(input, isLoading)
  /\ requests < MaxSends
  /\ \E t1 \in now..MaxClock : \E t2 \in t1..MaxClock :
       /\ messages' = AppendedOnSend(messages, input, t1, t2)
       /\ assistantMessageId' = t2 + 1
       /\ now' = t2
  /\ input' = <<>>
  /\ isLoading' = LoadingAfterAccept
  /\ pc' = "fetch"
  /\ base' = Len(messages)
  /\ requests' = requests + 1
  /\ inflight' = inflight + 1
  /\ outcome' = "Idle"
  /\ lastError' = "none"
  /\ lastCall' = "accepted"
  /\ cancelRequested' = FALSE
  /\ fullResponse' = <<>>
  /\ buffer' = <<>>
  /\ held' = <<>>
  /\ wire' = <<>>
  /\ body' = <<>>
  /\ frames' = <<>>
  /\ splitFrame' = FALSE
  /\ streamEnded' = FALSE
  /\ UNCHANGED variant

\* A finally block that leaves the flag set.
LoadingLeftSet == TRUE

\* The value setIsLoading is given in the finally block.
LoadingAfterFinally == FALSE

\* finally { setIsLoading(false) }: the handler returns.
Finally ==
  /\ isLoading' = LoadingAfterFinally
  /\ pc' = "idle"
  /\ inflight' = inflight - 1

\* catch (error) { setMessages(...) } followed by the finally block.
Catch(kind) ==
  /\ \E t \in now..MaxClock :
       /\ now' = t
       /\ messages' = CatchMessages(variant, messages, t, kind)
  /\ lastError' = kind
  /\ outcome' = "Errored"
  /\ Finally
  /\ lastCall' = "none"
  /\ UNCHANGED <<variant, input, assistantMessageId, stream, base, requests,
                 cancelRequested>>

\* A handler that throws when the body ends before a frame with done: true.
EndWithoutTerminalThrows ==
  IF \E i \in DOMAIN frames : frames[i].done
  THEN /\ outcome' = "Completed"
       /\ Finally
       /\ lastCall' = "none"
       /\ UNCHANGED <<variant, messages, input, now, assistantMessageId,
                      stream, base, requests, lastError, cancelRequested>>
  ELSE Catch("read")

\* The try block ends without a throw; the finally block runs.
Complete ==
  /\ outcome' = "Completed"
  /\ Finally
  /\ lastCall' = "none"
  /\ UNCHANGED <<variant, messages, input, now, assistantMessageId, stream,
                 base, requests, lastError, cancelRequested>>

\* await fetch(...) rejects (network failure).
FetchRejects == pc = "fetch" /\ Catch("fetch") /\ UNCHANGED streamEnded

\* fetch resolves with !response.ok: throw new Error(`API error: ...`).
FetchNotOk == pc = "fetch" /\ Catch("status") /\ UNCHANGED streamEnded

\* fetch resolves with ok and no body: reader is undefined, the loop is
\* skipped.
FetchNoBody == pc = "fetch" /\ Complete /\ UNCHANGED streamEnded

\* fetch resolves with ok and a body out of S: the reader is taken and the
\* handler suspends in its first await reader.read().
FetchOkFrom(S) ==
  /\ pc = "fetch"
  /\ \E b \in S : wire' = b /\ body' = b
  /\ pc' = "read"
  /\ lastCall' = "none"
  /\ UNCHANGED <<variant, messages, input, isLoading, now,
                 assistantMessageId, fullResponse, buffer, held, frames,
                 splitFrame, streamEnded, base, requests, inflight, outcome,
                 lastError, cancelRequested>>

\* reader.read() resolves with the next k bytes: one pass of the while loop,
\* decode, split, the for-loop over the lines, and the setMessages calls.
ReadChunk ==
  /\ pc = "read"
  /\ \E k \in 1..Len(wire) :
       LET chunk == SubSeq(wire, 1, k)
           text == DecodeStreamText(held, chunk)
           lines == LinesOf(variant, buffer, text)
           full == MergeLines(lines, fullResponse)
       IN /\ wire' = SubSeq(wire, k + 1, Len(wire))
          /\ held' = DecodeStreamHeld(held, chunk)
          /\ buffer' = BufferOf(variant, buffer, text)
          /\ fullResponse' = full
          /\ frames' = frames \o ParsedFrames(lines)
          /\ messages' = IF Merged(lines)
                         THEN UpdateContent(messages, assistantMessageId, full)
                         ELSE messages
          /\ splitFrame' =
               (splitFrame \/ SplitsFrame(body, Len(body) - Len(wire) + k))
  /\ lastCall' = "none"
  /\ UNCHANGED <<variant, input, isLoading, now, pc, assistantMessageId,
                 body, streamEnded, base, requests, inflight, outcome,
                 lastError, cancelRequested>>

\* reader.read() resolves with done: break, and the handler returns.
ReadDone == pc = "read" /\ wire = <<>> /\ Complete /\ streamEnded' = TRUE

\* reader.read() rejects (the connection fails while the body is read).
ReadError == pc = "read" /\ Catch("read") /\ UNCHANGED streamEnded

\* Cancellation is triggered from outside while the exchange runs.  The
\* handler holds no abort signal and reads no flag: only the trigger is
\* recorded.
Cancel ==
  /\ pc # "idle"
  /\ ~cancelRequested
  /\ cancelRequested' = TRUE
  /\ lastCall' = "none"
  /\ UNCHANGED <<variant, messages, input, isLoading, now, pc,
                 assistantMessageId, stream, streamEnded, base, requests, inflight,
                 outcome, lastError>>

TypeInput == \E v \in InputSet : SetInput(v)

\* The whole component: the server answers with one of Replies.
FetchOk == FetchOkFrom(Replies)

Transport ==
  \/ FetchRejects
  \/ FetchNotOk
  \/ FetchNoBody
  \/ FetchOk
  \/ ReadError
  \/ ReadDone
  \/ ReadChunk

Next ==
  \/ TypeInput
  \/ SendRejected
  \/ SendAccepted
  \/ Transport
  \/ Cancel

Spec == Init /\ [][Next]_vars

\* The transport answers every request and every read: it fails, delivers
\* bytes or reports the end of the stream.
FairSpec == Spec /\ WF_vars(Transport)

\* One exchange of a freshly mounted component, with every body of BodySet
\* cut into chunks at every byte offset.
FirstInput == requests = 0 /\ pc = "idle" /\ TypeInput

FirstSend == requests = 0 /\ SendAccepted

FetchAny == FetchOkFrom(BodySet)

StreamNext ==
  \/ FirstInput
  \/ FirstSend
  \/ FetchRejects
  \/ FetchNotOk
  \/ FetchNoBody
  \/ FetchAny
  \/ ReadChunk
  \/ ReadDone
  \/ ReadError

StreamSpec == Init /\ [][StreamNext]_vars

\* ------------------------------------------------------ reference notions
\* The exchange has resolved without the catch block running.
ResolvedCompleted == requests > 0 /\ pc = "idle" /\ outcome = "Completed"

\* The exchange has resolved through the catch block.
ResolvedErrored == requests > 0 /\ pc = "idle" /\ outcome = "Errored"

\* The assistant placeholder the last accepted send appended.
Placeholder == messages[base + 2]

\* The newline-terminated lines of a body, decoded.
RECURSIVE DecodeEach(_)
DecodeEach(ls) ==
  IF ls = <<>> THEN <<>>
  ELSE <<DecodeBytes(Head(ls))>> \o DecodeEach(Tail(ls))

WireLines(b) == DecodeEach(Front(Split(b, "NL")))

Terminated(b) == b = <<>> \/ Last(b) = "NL"

\* d1 + d2 + ... + dn over the lines that are frames.
RECURSIVE ConcatDeltas(_)
ConcatDeltas(ls) ==
  IF ls = <<>> THEN <<>>
  ELSE (IF JSONParse(Head(ls)).ok THEN JSONParse(Head(ls)).response
        ELSE <<>>) \o ConcatDeltas(Tail(ls))

\* Every line is a frame, and exactly the last one is terminal.
WellFormedStream(b) ==
  LET ls == WireLines(b)
  IN /\ b # <<>>
     /\ Terminated(b)
     /\ \A i \in DOMAIN ls :
          /\ JSONParse(ls[i]).ok
          /\ JSONParse(ls[i]).done <=> (i = Len(ls))

\* ---------------------------------------------------------------- claims
\* C1 (Concatenation): when a send resolves after a stream whose lines are
\* all frames, newline-terminated, with the terminal frame last, the
\* placeholder's content is the concatenation of the frames' deltas, for
\* every way of cutting the body into chunks.
C1_Concatenation ==
  (ResolvedCompleted /\ WellFormedStream(body))
    => Placeholder.content = ConcatDeltas(WireLines(body))

\* C1 restricted to the variant that keeps a carry-over buffer.
C1_ConcatenationBuffered == variant = 1 => C1_Concatenation

\* What the handler leaves when the whole body arrives as a single chunk.
OneChunkLines(v, b) == LinesOf(v, <<>>, DecodeStreamText(<<>>, b))

OneChunkContent(v, b) == MergeLines(OneChunkLines(v, b), <<>>)

OneChunkFrames(v, b) == ParsedFrames(OneChunkLines(v, b))

\* C2 (Chunk-boundary invariance): whatever the cuts, a completed exchange
\* has decoded the frames, and left the content, that the same body gives
\* when it arrives as one chunk; a line split across two chunks is one frame.
C2_ChunkInvariance ==
  ResolvedCompleted
    => /\ frames = OneChunkFrames(variant, body)
       /\ Placeholder.content = OneChunkContent(variant, body)

\* C2 restricted to the variant that keeps a carry-over buffer.
C2_ChunkInvarianceBuffered == variant = 1 => C2_ChunkInvariance

\* C3 (Malformed-line resilience): with every line terminated and no frame
\* cut in two by a chunk boundary, lines that fail to parse change nothing:
\* the exchange completes and the content is the concatenation of the
\* deltas of the lines that are frames.
C3_MalformedSkipped ==
  (ResolvedCompleted /\ Terminated(body) /\ ~splitFrame)
    => Placeholder.content = ConcatDeltas(WireLines(body))

\* C3 restricted to the variant that keeps a carry-over buffer.
C3_MalformedSkippedBuffered == variant = 1 => C3_MalformedSkipped

\* The frames up to and including the first terminal one.
RECURSIVE UpToDone(_)
UpToDone(fs) ==
  IF fs = <<>> THEN <<>>
  ELSE IF Head(fs).done THEN <<Head(fs)>>
  ELSE <<Head(fs)>> \o UpToDone(Tail(fs))

RECURSIVE ConcatResponses(_)
ConcatResponses(fs) ==
  IF fs = <<>> THEN <<>> ELSE Head(fs).response \o ConcatResponses(Tail(fs))

\* C10 (Terminal frame ends processing): while and after the body is read,
\* the accumulated content holds no delta of a frame that follows the
\* first terminal frame.
C10_TerminalStops ==
  (requests > 0 /\ pc # "fetch")
    => fullResponse = ConcatResponses(UpToDone(frames))

\* The lifecycle state of the exchange, read off the handler's position.
SessionState ==
  IF pc = "fetch" THEN "Sending"
  ELSE IF pc = "read" THEN "Streaming"
  ELSE outcome

Active == SessionState \in {"Sending", "Streaming"}

\* A step that is a call of handleSendMessage.
SendCall == SendRejected \/ SendAccepted

WhitespaceOnly(s) == \A i \in DOMAIN s : s[i] \in Whitespace

\* What a running exchange consists of.
session == <<messages, isLoading, pc, assistantMessageId, fullResponse,
             buffer, held, wire, body, frames, requests, inflight, outcome,
             lastError>>

\* C4 (At-most-one-active-session): never are two handler invocations
\* between their acceptance and their finally block, and a call made while
\* the session is Sending or Streaming appends no message, issues no
\* request and leaves the running session as it is.
C4_AtMostOneActive ==
  /\ [](inflight <= 1)
  /\ [](Active <=> inflight = 1)
  /\ [][(Active /\ SendCall) => UNCHANGED session]_vars

\* A call with text in the input was turned away while the body was read.
C4_Witness ==
  /\ lastCall = "busy"
  /\ SessionState = "Streaming"
  /\ input = <<"SP", "h">>
  /\ fullResponse # <<>>

\* C5 (Cancellation stops mutation): after cancellation is triggered the
\* conversation is not changed while the exchange runs, and the exchange
\* resolves to Errored.
C5_CancelStopsMutation ==
  [][(cancelRequested /\ Active)
       => /\ Active' => messages' = messages
          /\ ~Active' => outcome' = "Errored"]_vars

IsErrorText(c) == \E i \in DOMAIN c : c[i] = "Error:"

\* What the exchange has added to the conversation.
Contribution == SubSeq(messages, base + 1, Len(messages))

OneUserOneError ==
  /\ Len(Contribution) = 2
  /\ Contribution[1].role = "user"
  /\ Contribution[2].role = "assistant"
  /\ IsErrorText(Contribution[2].content)
  /\ \A i \in DOMAIN Contribution : Contribution[i].content # <<>>

\* C6 (Error before streaming): when fetch rejects or the status is not
\* success, the resolved exchange has contributed one user message followed
\* by one assistant message, which carries the error description, and no
\* message with empty content.
C6_ErrorBeforeStreaming ==
  (ResolvedErrored /\ lastError \in {"fetch", "status"}) => OneUserOneError

\* C6 restricted to the variant that drops the placeholder.
C6_ErrorBeforeStreamingReplacing == variant = 1 => C6_ErrorBeforeStreaming

\* C7 (Error during streaming): when a read fails after deltas have been
\* applied, the conversation is as long as right after the send was
\* accepted and the assistant message holds the error description, not the
\* partial content.
C7_ErrorDuringStreaming ==
  (ResolvedErrored /\ lastError = "read" /\ fullResponse # <<>>)
    => /\ OneUserOneError
       /\ \A i \in DOMAIN Contribution :
            Contribution[i].role = "assistant"
              => Contribution[i].content # fullResponse

\* C7 restricted to the variant that drops the placeholder.
C7_ErrorDuringStreamingReplacing == variant = 1 => C7_ErrorDuringStreaming

\* C8 (Rejected send is a no-op): a call with empty or whitespace-only
\* input changes neither the conversation, the input, the session state nor
\* the loading flag, and issues no request.
C8_RejectedNoOp ==
  [][(WhitespaceOnly(input) /\ SendCall)
       => /\ UNCHANGED <<session, input>>
          /\ SessionState' = SessionState]_vars

\* A call with whitespace in the input has just been turned away.
C8_Witness ==
  /\ lastCall = "blank"
  /\ input = <<"SP">>
  /\ ~isLoading

\* C9 (Every accepted send eventually resolves): under a transport that
\* answers, a loading exchange reaches Completed or Errored with the flag
\* cleared, and the guard then lets a send with text through.
C9_SendResolves ==
  /\ isLoading ~> (~isLoading /\ SessionState \in {"Completed", "Errored"})
  /\ [](SessionState \in {"Completed", "Errored"}
          => ~Rejects(<<"h">>, isLoading))

\* A second send was accepted after the first one resolved.
C9_Witness ==
  /\ requests = 2
  /\ lastCall = "accepted"
  /\ Len(messages) >= 4

\* ------------------------------------------------------------------ C11
\* The delta the wire format assigns to a frame: message.content when the
\* frame has it, the value of "response" otherwise.
SelectedDelta(frame) ==
  IF frame.hasMessage THEN frame.content ELSE frame.response

RECURSIVE ConcatSelected(_)
ConcatSelected(fs) ==
  IF fs = <<>> THEN <<>>
  ELSE SelectedDelta(Head(fs)) \o ConcatSelected(Tail(fs))

\* The frames JSON.parse returned during the step.
NewFrames == SubSeq(frames', Len(frames) + 1, Len(frames'))

\* C11: every step of the read loop merges into the accumulated reply, for
\* each frame it parsed, that frame's message.content when present and its
\* response otherwise.
C11_DeltaSelection ==
  [][(pc = "read" /\ pc' = "read")
       => fullResponse' = fullResponse \o ConcatSelected(NewFrames)]_vars

\* The same step with the delta taken from "response" alone, which is what
\* both handlers read.
C11_ResponseOnly ==
  [][(pc = "read" /\ pc' = "read")
       => fullResponse' = fullResponse \o ConcatResponses(NewFrames)]_vars

\* ------------------------------------------------------------------ C12
DoneSeen(fs) == \E i \in DOMAIN fs : fs[i].done

\* C12 (Stream end without a terminal frame is a soft success): when the
\* body ends without an error and no frame with done = true was parsed,
\* the exchange resolves to Completed, the step that ends it leaves the
\* conversation as it was, the placeholder holds the accumulated content,
\* and no error message is added.
C12_SoftSuccess ==
  /\ []((pc = "idle" /\ streamEnded /\ ~DoneSeen(frames))
          => /\ outcome = "Completed"
             /\ ~isLoading
             /\ Len(messages) = base + 2
             /\ Placeholder.role = "assistant"
             /\ Placeholder.content = fullResponse
             /\ ~IsErrorText(Placeholder.content))
  /\ [][(~streamEnded /\ streamEnded') => messages' = messages]_vars

C12_Witness ==
  /\ pc = "idle"
  /\ streamEnded
  /\ ~DoneSeen(frames)
  /\ Len(frames) = 2
  /\ Placeholder.content = <<"e_acute", "e_acute">>

\* ------------------------------------------------------------------ C13
\* C13 (Effect of an accepted send): a call of the handler with a
\* non-blank input while no exchange is active adds exactly two messages,
\* the user message holding the submitted input and after it an empty
\* assistant placeholder, leaves every earlier message as it was, and
\* clears the input field.
C13_AcceptedSend ==
  [][(SendCall /\ ~WhitespaceOnly(input) /\ ~Active)
       => /\ Len(messages') = Len(messages) + 2
          /\ SubSeq(messages', 1, Len(messages)) = messages
          /\ messages'[Len(messages) + 1].role = "user"
          /\ messages'[Len(messages) + 1].content = input
          /\ messages'[Len(messages) + 2].role = "assistant"
          /\ messages'[Len(messages) + 2].content = <<>>
          /\ input' = <<>>]_vars

C13_Witness ==
  /\ lastCall = "accepted"
  /\ Len(messages) = 4
  /\ messages[1].content = <<"SP", "h">>
  /\ messages[3].content = <<"SP", "h">>
  /\ messages[4].content = <<>>
  /\ input = <<>>

\* ------------------------------------------------------------------ C14
\* What a step may do to the message at position i.
KeptByStep(i) ==
  /\ i \in DOMAIN messages'
  /\ messages'[i].id = messages[i].id
  /\ messages'[i].role = messages[i].role
  /\ messages'[i].content # messages[i].content
       => /\ Active
          /\ i = Len(messages)
          /\ i = base + 2
          /\ messages[i].role = "assistant"

\* C14 (Append-only conversation): no step removes a message or changes
\* the id or role of one, and the only content a step changes is that of
\* the most recent assistant message, the placeholder, while its exchange
\* is active.
C14_AppendOnly == [][\A i \in DOMAIN messages : KeptByStep(i)]_vars

\* ------------------------------------------------------------------ C15
\* The messages a content update by id would rewrite.
MatchedBy(id) == {i \in DOMAIN messages : messages[i].id = id}

\* C15 (Message identifiers are unique and ordered): the ids of the
\* conversation are strictly increasing in creation order, whatever the
\* non-decreasing clock readings were, and while an exchange is active a
\* content update by the placeholder's id matches exactly one message.
C15_UniqueIds ==
  /\ \A i, j \in DOMAIN messages :
       i < j => messages[i].id < messages[j].id
  /\ Active => Cardinality(MatchedBy(assistantMessageId)) = 1

\* ------------------------------------------------------------------ C16
IsPrefix(s, t) == Len(s) <= Len(t) /\ SubSeq(t, 1, Len(s)) = s

\* C16 (Ordered running accumulation): while the body is read the
\* placeholder's content is the concatenation, in arrival order, of the
\* deltas of the frames consumed so far, and a step of the read loop only
\* appends to it.
C16_RunningAccumulation ==
  /\ [](pc = "read" => Placeholder.content = ConcatSelected(frames))
  /\ [][(pc = "read" /\ pc' = "read")
          => IsPrefix(Placeholder.content, Placeholder.content')]_vars

\* The same with the delta of a frame taken from "response" alone.
C16_RunningAccumulationResponse ==
  /\ [](pc = "read" => Placeholder.content = ConcatResponses(frames))
  /\ [][(pc = "read" /\ pc' = "read")
          => IsPrefix(Placeholder.content, Placeholder.content')]_vars

\* ------------------------------------------------------------------ C17
Resolved == SessionState \in {"Completed", "Errored"}

\* C17 (Loading flag tracks the session): isLoading is true exactly while
\* the exchange is Sending or Streaming; it is set only by the step that
\* accepts a send, and cleared only by the step that resolves that
\* exchange, once, whether it completes or fails.
C17_LoadingTracksSession ==
  /\ [](isLoading <=> Active)
  /\ [][(~isLoading /\ isLoading')
          => /\ lastCall' = "accepted"
             /\ requests' = requests + 1
             /\ inflight' = 1]_vars
  /\ [][(isLoading /\ ~isLoading')
          => /\ Active
             /\ Resolved'
             /\ requests' = requests
             /\ inflight' = 0]_vars
  /\ [][(Active /\ Resolved') => ~isLoading']_vars

C17_Witness ==
  /\ requests = 2
  /\ ~isLoading
  /\ outcome = "Errored"
  /\ lastError = "read"
  /\ \E i \in DOMAIN messages : messages[i].content = <<"b">>

\* ------------------------------------------------------------------ C18
\* C18 (Error replacement hits only the own placeholder): in variant 1,
\* while an exchange is active the last element of the conversation is the
\* placeholder that exchange created, right after its user message, and
\* the step that ends the exchange in an error replaces that last element
\* alone: every message before it, the user message included, is kept.
C18_DropsOwnPlaceholder ==
  /\ []((variant = 1 /\ Active)
          => /\ Len(messages) = base + 2
             /\ Last(messages).role = "assistant"
             /\ Last(messages).id = assistantMessageId
             /\ messages[base + 1].role = "user")
  /\ [][(variant = 1 /\ Active /\ outcome' = "Errored")
          => /\ Len(messages') = Len(messages)
             /\ Front(messages') = Front(messages)
             /\ IsErrorText(Last(messages').content)]_vars

C18_Witness ==
  /\ variant = 1
  /\ ResolvedErrored
  /\ requests = 2
  /\ Len(messages) = 4
  /\ messages[2].content = <<"b">>
  /\ messages[3].role = "user"
  /\ IsErrorText(messages[4].content)

\* ------------------------------------------------------------------ C19
Alternating(msgs) ==
  /\ Len(msgs) % 2 = 0
  /\ \A i \in DOMAIN msgs :
       msgs[i].role = IF i % 2 = 1 THEN "user" ELSE "assistant"

\* C19 (Roles alternate): whenever no exchange is active the conversation
\* is a sequence of (user, assistant) pairs: even length, a user message
\* first, no two neighbours of the same role.
C19_RolesAlternate == ~Active => Alternating(messages)

\* The same for the handler whose catch block replaces the placeholder.
C19_RolesAlternateReplacing ==
  (variant = 1 /\ ~Active) => Alternating(messages)

\* ------------------------------------------------------------------ C20
\* The bytes the step read.
ChunkRead == SubSeq(wire, 1, Len(wire) - Len(wire'))

\* A pass of the read loop that starts at a line boundary and whose chunk
\* ends with a newline.
AlignedStep ==
  /\ pc = "read" /\ pc' = "read"
  /\ Len(wire') < Len(wire)
  /\ buffer = <<>> /\ held = <<>>
  /\ Last(ChunkRead) = "NL"

OtherVariant == 3 - variant

\* C20 (The two variants agree on line-aligned streams): a pass of the
\* read loop over a chunk that ends at a newline leaves the accumulated
\* reply, the conversation, the parsed frames and the (empty) carry-over
\* exactly as the loop body of the other variant would have left them from
\* the same state.  Both variants start an exchange with the same state,
\* so over a stream whose every chunk ends at a newline they go through
\* the same sequence of placeholder contents and end with the same one.
C20_VariantsAgree ==
  [][AlignedStep
       => LET text == DecodeStreamText(<<>>, ChunkRead)
              lines == LinesOf(OtherVariant, <<>>, text)
              full == MergeLines(lines, fullResponse)
          IN /\ fullResponse' = full
             /\ frames' = frames \o ParsedFrames(lines)
             /\ messages' = IF Merged(lines)
                            THEN UpdateContent(messages, assistantMessageId,
                                               full)
                            ELSE messages
             /\ BufferOf(OtherVariant, <<>>, text) = <<>>
             /\ buffer' = <<>>
             /\ held' = <<>>]_vars

C20_Witness ==
  /\ pc = "read"
  /\ variant = 2
  /\ buffer = <<>> /\ held = <<>>
  /\ ~splitFrame
  /\ body = JoinLines(<<FrameAcute, FrameDone>>)
  /\ wire = JoinLines(<<FrameDone>>)
  /\ Placeholder.content = <<"e_acute">>

\* ------------------------------------------------------------------ C21
\* The frames of the newline-terminated lines of a body.
TerminatedFrames(b) == ParsedFrames(WireLines(b))

\* C21 (Unterminated final line is dropped): when the buffered variant has
\* read a body to its end, the frames it parsed are those of the
\* newline-terminated lines, a last line without a newline is left in the
\* carry-over buffer unparsed, and the final content is the concatenation
\* of the deltas of the newline-terminated lines only.
C21_UnterminatedDropped ==
  (variant = 1 /\ pc = "idle" /\ streamEnded)
    => /\ frames = TerminatedFrames(body)
       /\ buffer = DecodeBytes(Last(Split(body, "NL")))
       /\ Placeholder.content = ConcatSelected(TerminatedFrames(body))

\* The same with the delta of a frame taken from "response" alone.
C21_UnterminatedDroppedResponse ==
  (variant = 1 /\ pc = "idle" /\ streamEnded)
    => /\ frames = TerminatedFrames(body)
       /\ buffer = DecodeBytes(Last(Split(body, "NL")))
       /\ Placeholder.content = ConcatResponses(TerminatedFrames(body))

\* ------------------------------------------------------------------ C22
\* A line that is blank, is not a frame, or is a frame with an empty delta.
CarriesNothing(line) ==
  \/ Trim(line) = <<>>
  \/ ~JSONParse(line).ok
  \/ SelectedDelta(JSONParse(line)) = <<>>

\* Every line of the body, an unterminated last one included, is such a
\* line.
OnlyEmptyLines(b) ==
  LET ls == DecodeEach(Split(b, "NL"))
  IN \A i \in DOMAIN ls : CarriesNothing(ls[i])

\* The exchange has contributed its user message and an empty placeholder.
EmptyPlaceholderKept ==
  /\ Len(messages) = base + 2
  /\ messages[base + 1].role = "user"
  /\ Placeholder.role = "assistant"
  /\ Placeholder.content = <<>>

\* C22 (Empty successful exchange): when a success response has no
\* readable body, or its body is read to the end and carried only blank
\* lines, malformed lines and frames with an empty delta, the exchange
\* resolves to Completed, no error message is added, and the placeholder
\* stays in the conversation with empty content.
C22_EmptyExchange ==
  /\ []((pc = "idle" /\ streamEnded /\ OnlyEmptyLines(body))
          => (outcome = "Completed" /\ ~isLoading /\ EmptyPlaceholderKept))
  /\ [][FetchNoBody
          => /\ outcome' = "Completed"
             /\ ~isLoading'
             /\ messages' = messages
             /\ EmptyPlaceholderKept]_vars

\* The same for the variant that keeps a carry-over buffer.
C22_EmptyExchangeBuffered ==
  /\ []((variant = 1 /\ pc = "idle" /\ streamEnded /\ OnlyEmptyLines(body))
          => (outcome = "Completed" /\ ~isLoading /\ EmptyPlaceholderKept))
  /\ [][(variant = 1 /\ FetchNoBody)
          => /\ outcome' = "Completed"
             /\ ~isLoading'
             /\ messages' = messages
             /\ EmptyPlaceholderKept]_vars

====
